---- MODULE Spec2Model ----
(***************************************************************************)
(* Visualization engine of MLS2MARKET: process/analytics_generator.py.     *)
(*                                                                         *)
(* A chart document is modelled by the geometry the generator writes into  *)
(* the SVG text (canvas size, bars, points, labels), not by the text.      *)
(* Python floats are modelled by exact fractions [num, den]; a Python      *)
(* exception is the result Raise(<exception class>).                       *)
(***************************************************************************)
EXTENDS Integers, Sequences, FiniteSets, TLC

(***************************************************************************)
(* Bounds of the model.                                                    *)
(***************************************************************************)
MaxComps == 2
MaxPrice == 2
MaxClock == 1
MaxSince == 2
NumCallers == 2
ScoreMargin == 10
ManyComps == 9

(***************************************************************************)
(* State.                                                                  *)
(*   op, args, outcome   the last call made on the generator, its          *)
(*                       arguments and what it returned or raised          *)
(*   remembered          an earlier generate_all_charts call (arguments    *)
(*                       and outcome), kept to compare a repeated call     *)
(*   clock               the wall clock of the process                     *)
(*   pc, input, frames, result                                             *)
(*                       concurrent callers of generate_all_charts: the    *)
(*                       next statement of each, its argument, the local   *)
(*                       charts mapping of each call frame, its outcome    *)
(*   attributes          the attributes of the generator object             *)
(*                       (self.__dict__): the class sets none               *)
(***************************************************************************)
VARIABLES op, args, outcome, remembered, clock, pc, input, frames, result, attributes

vars == <<op, args, outcome, remembered, clock, pc, input, frames, result, attributes>>

(***************************************************************************)
(* Python values.                                                          *)
(***************************************************************************)
Frac(n, d) == [num |-> n, den |-> d]

\* a <= b for fractions with positive denominators
FracLeq(a, b) == a.num * b.den <= b.num * a.den

Ok(document) == [status |-> "ok", doc |-> document]

Raise(exception) == [status |-> "raise", exc |-> exception]

NoItems == [k \in {} |-> [t |-> "dict", has_score |-> FALSE, score |-> 0]]

\* the keys a ratings mapping of the model may hold, in the order a mapping built by
\* RatingsDict holds them
InputKeyOrder ==
    <<"school_quality", "safety", "transportation", "amenities", "investment_potential",
      "environment", "overall">>

KeysInOrder(keys) ==
    LET Held(k) == k \in keys IN SelectSeq(InputKeyOrder, Held)

\* a rating entry {'score': s}, an entry without a score, an entry that is no mapping
RatingEntry(s) == [t |-> "dict", has_score |-> TRUE, score |-> s]

EntryNoScore == [t |-> "dict", has_score |-> FALSE, score |-> 0]

EntryNotMapping == [t |-> "int", has_score |-> FALSE, score |-> 0]

\* the ratings field: key missing, None, or a mapping; order is the insertion order
\* of the mapping's keys (the order in which iterating the mapping yields them)
RatingsMissing == [t |-> "missing", items |-> NoItems, order |-> <<>>]

RatingsNone == [t |-> "None", items |-> NoItems, order |-> <<>>]

RatingsOrdered(items, order) == [t |-> "dict", items |-> items, order |-> order]

RatingsDict(items) == RatingsOrdered(items, KeysInOrder(DOMAIN items))

\* a comparable sale, with or without its price and price_per_sqft keys
Comp(has_p, p, has_q, q) ==
    [has_price |-> has_p, price |-> p, has_price_per_sqft |-> has_q, price_per_sqft |-> q]

\* the valuation field: key missing, None, or a mapping with optional keys
ValuationMissing ==
    [t |-> "missing", has_listing_price |-> FALSE, listing_price |-> 0,
     has_comparable_sales |-> FALSE, comparable_sales |-> <<>>,
     has_price_trend |-> FALSE, price_trend |-> ""]

ValuationNone == [ValuationMissing EXCEPT !.t = "None"]

ValuationDict(has_l, l, has_c, c, has_t, tr) ==
    [t |-> "dict", has_listing_price |-> has_l, listing_price |-> l,
     has_comparable_sales |-> has_c, comparable_sales |-> c,
     has_price_trend |-> has_t, price_trend |-> tr]

\* an optional integer field of the property record
IntMissing == [t |-> "missing", v |-> 0]

IntValue(n) == [t |-> "int", v |-> n]

PropertyData(r, v, p, s) == [ratings |-> r, valuation |-> v, price |-> p, sqft |-> s]

\* Python truthiness of a ratings argument: None and the empty mapping are falsy
Truthy(ratings) == ratings.t = "dict" /\ DOMAIN ratings.items # {}

RECURSIVE SeqMax(_)
SeqMax(s) ==
    IF Len(s) = 1 THEN s[1]
    ELSE LET m == SeqMax(Tail(s)) IN IF s[1] >= m THEN s[1] ELSE m

RECURSIVE SeqSum(_)
SeqSum(s) == IF s = <<>> THEN 0 ELSE s[1] + SeqSum(Tail(s))

(***************************************************************************)
(* Score classification.                                                   *)
(***************************************************************************)
score_to_color(score) ==
    IF score >= 90 THEN "#10B981"
    ELSE IF score >= 80 THEN "#34D399"
    ELSE IF score >= 70 THEN "#FBBF24"
    ELSE IF score >= 60 THEN "#F59E0B"
    ELSE "#EF4444"

\* score_to_label with the boundary test > in place of >=
score_to_label_strict(score) ==
    IF score > 90 THEN "Excellent"
    ELSE IF score > 80 THEN "Very Good"
    ELSE IF score > 70 THEN "Good"
    ELSE IF score > 60 THEN "Fair"
    ELSE "Needs Attention"

score_to_label(score) ==
    IF score >= 90 THEN "Excellent"
    ELSE IF score >= 80 THEN "Very Good"
    ELSE IF score >= 70 THEN "Good"
    ELSE IF score >= 60 THEN "Fair"
    ELSE "Needs Attention"

\* the scraper's palette with another green for the scores 80..89
scraper_score_to_color_other_green(score) ==
    IF score >= 90 THEN "#10B981"
    ELSE IF score >= 80 THEN "#68D391"
    ELSE IF score >= 70 THEN "#FBBF24"
    ELSE IF score >= 60 THEN "#F59E0B"
    ELSE "#EF4444"

\* EnhancedPropertyScraper.score_to_color and score_to_label (enhanced_scraper.py)
scraper_score_to_color(score) ==
    IF score >= 90 THEN "#10B981"
    ELSE IF score >= 80 THEN "#34D399"
    ELSE IF score >= 70 THEN "#FBBF24"
    ELSE IF score >= 60 THEN "#F59E0B"
    ELSE "#EF4444"

scraper_score_to_label(score) ==
    IF score >= 90 THEN "Excellent"
    ELSE IF score >= 80 THEN "Very Good"
    ELSE IF score >= 70 THEN "Good"
    ELSE IF score >= 60 THEN "Fair"
    ELSE "Needs Attention"

(***************************************************************************)
(* Placeholder documents.                                                  *)
(***************************************************************************)
default_radar_chart ==
    [chart |-> "radar", placeholder |-> TRUE, width |-> 400, height |-> 300,
     text |-> "Rating data not available"]

\* a bar-chart placeholder with the radar placeholder's dimensions
default_bar_chart_radar_size ==
    [chart |-> "valuation", placeholder |-> TRUE, width |-> 400, height |-> 300,
     text |-> "Comparable sales data not available"]

default_bar_chart ==
    [chart |-> "valuation", placeholder |-> TRUE, width |-> 500, height |-> 300,
     text |-> "Comparable sales data not available"]

default_comparison_chart ==
    [chart |-> "price_comparison", placeholder |-> TRUE, width |-> 400, height |-> 200,
     text |-> "Price comparison data not available"]

(***************************************************************************)
(* Radar chart.                                                            *)
(***************************************************************************)
categories == <<"Schools", "Safety", "Transport", "Amenities", "Investment", "Environment">>

\* rating_map, in its insertion order: rating_map[i] is the key of index i - 1
rating_map ==
    <<"school_quality", "safety", "transportation", "amenities",
      "investment_potential", "environment">>

\* a loop that appends a score only for the keys the ratings hold
radar_scores_present_only(ratings) ==
    LET Held(k) == k \in DOMAIN ratings.items
        present == SelectSeq(rating_map, Held)
    IN  [i \in 1..Len(present) |->
            IF ratings.items[present[i]].has_score
            THEN ratings.items[present[i]].score
            ELSE 75]

\* a loop over the ratings' own keys (for key in ratings), in their insertion order
radar_scores_input_order(ratings) ==
    LET Category(k) == \E i \in 1..Len(rating_map) : rating_map[i] = k
        keys == SelectSeq(ratings.order, Category)
        absent == Len(rating_map) - Len(keys)
    IN  [i \in 1..Len(keys) |->
            IF ratings.items[keys[i]].has_score THEN ratings.items[keys[i]].score ELSE 75]
        \o [i \in 1..absent |-> 75]

\* the scores of the six categories, sorted by value (highest first)
radar_scores_sorted(ratings) ==
    LET Higher(a, b) == a > b
        unsorted == [i \in 1..Len(rating_map) |->
                        IF rating_map[i] \in DOMAIN ratings.items
                        THEN IF ratings.items[rating_map[i]].has_score
                             THEN ratings.items[rating_map[i]].score
                             ELSE 75
                        ELSE 75]
    IN  SortSeq(unsorted, Higher)

\* the loop over rating_map.items(): the score appended for each key
radar_scores(ratings) ==
    [i \in 1..Len(rating_map) |->
        IF rating_map[i] \in DOMAIN ratings.items
        THEN IF ratings.items[rating_map[i]].has_score
             THEN ratings.items[rating_map[i]].score
             ELSE 75
        ELSE 75]

\* angle = 2 * pi * i / n - pi / 2 of axis i (0-based) of n, in twelfths of a turn
\* (30 degrees), clockwise from the positive x direction since y grows downwards;
\* exact when n divides 12 * i, as for the six categories
axis_angle(i, n) == ((12 * i) \div n - 3) % 12

\* math.cos of an angle given in twelfths of a turn, in thousandths (rounded)
cos_milli(twelfths) ==
    CASE twelfths \in {0} -> 1000
      [] twelfths \in {1, 11} -> 866
      [] twelfths \in {2, 10} -> 500
      [] twelfths \in {3, 9} -> 0
      [] twelfths \in {4, 8} -> -500
      [] twelfths \in {5, 7} -> -866
      [] twelfths \in {6} -> -1000

\* the anchor chosen toward the opposite side: end on the right, start on the left
text_anchor_mirrored(twelfths) ==
    IF cos_milli(twelfths) > 700 THEN "end"
    ELSE IF cos_milli(twelfths) < -700 THEN "start"
    ELSE "middle"

\* lines 113-118: the text anchor of a label on an axis of the given angle
text_anchor(twelfths) ==
    LET c == cos_milli(twelfths)
        abs == IF c < 0 THEN 0 - c ELSE c
    IN  IF abs > 700
        THEN IF c > 0 THEN "start" ELSE "end"
        ELSE "middle"

\* a point at distance r from the center in the direction of the angle
Polar(r, twelfths) == [r |-> r, angle |-> twelfths]

\* a line element <line class="axis-line"/> between two points
AxisLine(from, to) == [from |-> from, to |-> to]

\* lines 97-98 and 107: the axis-line elements, in document order: the vertical and
\* the horizontal line through the center, then one line per category from the
\* center to the outer radius
axis_lines(n, radius) ==
    <<AxisLine(Polar(radius, 9), Polar(radius, 3)),
      AxisLine(Polar(radius, 6), Polar(radius, 0))>>
    \o [i \in 1..n |-> AxisLine(Polar(0, 0), Polar(radius, axis_angle(i - 1, n)))]

generate_radar_chart(ratings) ==
    IF ~Truthy(ratings) THEN Ok(default_radar_chart)
    ELSE IF \E i \in 1..Len(rating_map) :
                /\ rating_map[i] \in DOMAIN ratings.items
                /\ ratings.items[rating_map[i]].t # "dict"
         THEN Raise("AttributeError")
    ELSE LET svg_width == 400
             svg_height == 300
             center_x == svg_width \div 2
             center_y == svg_height \div 2
             radius == (IF center_x <= center_y THEN center_x ELSE center_y) - 40
             scores == radar_scores(ratings)
         IN  Ok([chart |-> "radar", placeholder |-> FALSE,
                 width |-> svg_width, height |-> svg_height,
                 center_x |-> center_x, center_y |-> center_y, radius |-> radius,
                 categories |-> categories,
                 scores |-> scores,
                 \* angle = 2 * pi * axis / axes - pi / 2, kept as the pair (axis, axes)
                 labels |-> [i \in 1..Len(categories) |->
                               [axis |-> i - 1, axes |-> Len(categories),
                                text |-> categories[i], label_radius |-> radius + 20,
                                anchor |-> text_anchor(axis_angle(i - 1, Len(categories)))]],
                 axis_lines |-> axis_lines(Len(categories), radius),
                 points |-> [i \in 1..Len(scores) |->
                               [axis |-> i - 1, axes |-> Len(scores),
                                score_radius |-> Frac(radius * scores[i], 100),
                                score_label |-> scores[i]]]])

(***************************************************************************)
(* Valuation bar chart.                                                    *)
(***************************************************************************)
\* the guard written "if comparable_sales is None", which no list satisfies
no_comparable_sales_is_none(comparable_sales) == FALSE

\* line 149: if not comparable_sales
no_comparable_sales(comparable_sales) == comparable_sales = <<>>

\* the maximum taken over the comparable prices alone, the listing price left out
max_price_of_comparables(comparable_sales, listing_price) ==
    IF comparable_sales = <<>> THEN listing_price
    ELSE SeqMax([i \in 1..Len(comparable_sales) |-> comparable_sales[i].price])

\* line 156: max([sale['price'] for sale in comparable_sales] + [listing_price])
max_price_of(comparable_sales, listing_price) ==
    SeqMax([i \in 1..Len(comparable_sales) |-> comparable_sales[i].price]
           \o <<listing_price>>)

\* comparables placed from the listing's own slot: x = padding + (i + 1) * spacing
\* + i * bar_width for comparable i (0-based)
bar_x_from_listing_slot(slot, n) ==
    LET s == IF slot = 1 THEN 1 ELSE slot - 1
    IN  Frac((60 + (s - 1) * 40) * (n + 2) + s * (500 - 2 * 60 - (n + 1) * 40), n + 2)

\* lines 185-187, 192, 203: x of the bar in slot 1 (the listing) or slot i + 1
\* (comparable i) of a chart with n comparables; spacing = available_width / (n + 2)
bar_x(slot, n) ==
    LET svg_width == 500
        bar_width == 40
        padding == 60
        chart_width == svg_width - 2 * padding
        available_width == chart_width - (n + 1) * bar_width
    IN  Frac((padding + (slot - 1) * bar_width) * (n + 2) + slot * available_width, n + 2)

generate_valuation_chart(valuation_data) ==
    IF valuation_data.t = "None" THEN Raise("AttributeError")
    ELSE LET comparable_sales ==
                 IF valuation_data.has_comparable_sales
                 THEN valuation_data.comparable_sales ELSE <<>>
             n == Len(comparable_sales)
             listing_price ==
                 IF valuation_data.has_listing_price
                 THEN valuation_data.listing_price ELSE 0
         IN
         IF no_comparable_sales(comparable_sales) THEN Ok(default_bar_chart)
         ELSE IF \E i \in 1..n : ~comparable_sales[i].has_price THEN Raise("KeyError")
         ELSE LET svg_width == 500
                  svg_height == 300
                  bar_width == 40
                  padding == 60
                  max_price == max_price_of(comparable_sales, listing_price)
                  bar(label, class, value, slot) ==
                      [label |-> label, class |-> class, value |-> value,
                       width |-> bar_width,
                       x |-> bar_x(slot, n),
                       height |-> Frac(value * 150, max_price),
                       y |-> Frac((svg_height - 50) * max_price - value * 150, max_price)]
              IN
              IF max_price = 0 THEN Raise("ZeroDivisionError")
              ELSE Ok([chart |-> "valuation", placeholder |-> FALSE,
                       width |-> svg_width, height |-> svg_height,
                       max_price |-> max_price,
                       baseline |-> svg_height - 50,
                       \* lines 169-172: y of the four grid lines
                       gridlines |-> <<50, 100, 150, 200>>,
                       \* lines 180-183: value = i / 4 for i = 1..4; the text is at y + 3
                       y_labels |-> [i \in 1..4 |->
                                       [value |-> Frac(i, 4),
                                        y |-> Frac((svg_height - 50) * 4 - 150 * i, 4),
                                        price |-> (max_price * i) \div 4]],
                       bars |-> <<bar([name |-> "Listing", index |-> 0], "current-bar", listing_price, 1)>> \o
                                [i \in 1..n |->
                                   bar([name |-> "Comp", index |-> i], "bar",
                                       comparable_sales[i].price, i + 1)]])

(***************************************************************************)
(* Price per square foot comparison.                                       *)
(***************************************************************************)
\* a guard that tests the comparables only
comparison_unavailable_empty_only(comparables, current_sqft) ==
    comparables = <<>>

\* line 218: if not comparables or current_sqft == 0
comparison_unavailable(comparables, current_sqft) ==
    comparables = <<>> \/ current_sqft = 0

\* a comparable's bar drawn one pixel per unit: height = pps
comparable_bar_unscaled(i, pps) ==
    [label |-> [name |-> "Comp", index |-> i], x |-> 150 + (i - 1) * 70,
     width |-> 40,
     height |-> Frac(2 * pps, 2),
     y |-> Frac(100 * 2 - 2 * pps, 2)]

\* lines 248-257: the bar of comparable i (1-based): x = 150 + (i - 1) * 70,
\* height = pps / 2, y = 100 - height
comparable_bar(i, pps) ==
    [label |-> [name |-> "Comp", index |-> i], x |-> 150 + (i - 1) * 70,
     width |-> 40,
     height |-> Frac(pps, 2),
     y |-> Frac(100 * 2 - pps, 2)]

\* an average that counts the current property among the comparables
average_counting_current(values) == Frac(SeqSum(values), Len(values) + 1)

\* line 224: sum(comp_pps) / len(comp_pps)
average(values) == Frac(SeqSum(values), Len(values))

\* line 243: y1 = y2 = 100 - avg_pps / 2
avg_line_y(avg_pps) == Frac(100 * 2 * avg_pps.den - avg_pps.num, 2 * avg_pps.den)

generate_price_comparison(comparables, current_price, current_sqft) ==
    IF comparison_unavailable(comparables, current_sqft)
    THEN Ok(default_comparison_chart)
    \* line 222: current_price / current_sqft
    ELSE IF current_sqft = 0 THEN Raise("ZeroDivisionError")
    \* line 223: c['price_per_sqft']
    ELSE IF \E i \in 1..Len(comparables) : ~comparables[i].has_price_per_sqft
         THEN Raise("KeyError")
    \* line 224: sum(comp_pps) / len(comp_pps)
    ELSE IF Len(comparables) = 0 THEN Raise("ZeroDivisionError")
    ELSE LET current_pps == Frac(current_price, current_sqft)
             comp_pps == [i \in 1..Len(comparables) |-> comparables[i].price_per_sqft]
             avg_pps == average(comp_pps)
         IN  Ok([chart |-> "price_comparison", placeholder |-> FALSE,
                 width |-> 400, height |-> 200,
                 current_pps |-> current_pps,
                 current_bar |-> [x |-> 50, y |-> 40, width |-> 60, height |-> 30],
                 avg_pps |-> avg_pps,
                 avg_line_y |-> avg_line_y(avg_pps),
                 bars |-> [i \in 1..Len(comp_pps) |-> comparable_bar(i, comp_pps[i])]])

(***************************************************************************)
(* Market trend indicator and investment gauge.                            *)
(***************************************************************************)
\* a trend indicator that embeds the time of the call (datetime.now()) in the document
generate_market_trend_stamped(trend) ==
    Ok([chart |-> "market_trend", width |-> 150, height |-> 80,
        trend |-> trend, generated_at |-> clock])

\* a trend indicator that looks the color up with trend_colors[trend]
generate_market_trend_subscript(trend) ==
    IF trend \notin {"Rising", "Stable", "Declining", "Volatile"} THEN Raise("KeyError")
    ELSE Ok([chart |-> "market_trend", width |-> 150, height |-> 80,
             trend |-> trend,
             color |-> CASE trend = "Rising" -> "#48bb78"
                         [] trend = "Stable" -> "#fbbf24"
                         [] trend = "Declining" -> "#f56565"
                         [] OTHER -> "#9f7aea",
             path |-> IF trend = "Rising" THEN <<<<60, 65>>, <<75, 50>>, <<90, 65>>>>
                      ELSE IF trend = "Stable" THEN <<<<60, 60>>, <<75, 60>>, <<90, 60>>>>
                      ELSE IF trend = "Declining" THEN <<<<60, 50>>, <<75, 65>>, <<90, 50>>>>
                      ELSE <<<<60, 55>>, <<68, 65>>, <<75, 45>>, <<82, 65>>, <<90, 55>>>>])

generate_market_trend(trend) ==
    LET color == CASE trend = "Rising" -> "#48bb78"
                   [] trend = "Stable" -> "#fbbf24"
                   [] trend = "Declining" -> "#f56565"
                   [] trend = "Volatile" -> "#9f7aea"
                   [] OTHER -> "#a0aec0"
        \* the points of the path "M x,y L x,y ..." (y grows downwards)
        path == IF trend = "Rising" THEN <<<<60, 65>>, <<75, 50>>, <<90, 65>>>>
                ELSE IF trend = "Stable" THEN <<<<60, 60>>, <<75, 60>>, <<90, 60>>>>
                ELSE IF trend = "Declining" THEN <<<<60, 50>>, <<75, 65>>, <<90, 50>>>>
                ELSE <<<<60, 55>>, <<68, 65>>, <<75, 45>>, <<82, 65>>, <<90, 55>>>>
    IN  Ok([chart |-> "market_trend", width |-> 150, height |-> 80,
            trend |-> trend, color |-> color, path |-> path])

\* a gauge whose arc is taken as 250 units long (score * 2.5)
generate_investment_gauge_short_arc(score) ==
    Ok([chart |-> "investment_gauge", width |-> 200, height |-> 120,
        score |-> score, color |-> score_to_color(score), label |-> score_to_label(score),
        dash |-> Frac(score * 250, 100), dash_total |-> 251])

generate_investment_gauge(score) ==
    LET color == score_to_color(score)
        label == score_to_label(score)
    IN  Ok([chart |-> "investment_gauge", width |-> 200, height |-> 120,
            score |-> score, color |-> color, label |-> label,
            dash |-> Frac(score * 251, 100), dash_total |-> 251])

(***************************************************************************)
(* generate_all_charts: the five statements, each an argument evaluation   *)
(* followed by the call of one renderer.                                   *)
(***************************************************************************)
EmptyDict == RatingsDict(NoItems)

\* property_data.get('ratings', {})
get_ratings(property_data) ==
    IF property_data.ratings.t = "missing" THEN EmptyDict ELSE property_data.ratings

\* property_data.get('valuation', {})
get_valuation(property_data) ==
    IF property_data.valuation.t = "missing"
    THEN [ValuationMissing EXCEPT !.t = "dict"]
    ELSE property_data.valuation

\* property_data.get(<'price' or 'sqft'>, 0)
get_int(field) == IF field.t = "missing" THEN 0 ELSE field.v

chart_keys ==
    <<"ratings_radar", "valuation_chart", "price_comparison", "market_trend",
      "investment_gauge">>

ratings_radar_statement(property_data) ==
    generate_radar_chart(get_ratings(property_data))

valuation_chart_statement(property_data) ==
    generate_valuation_chart(get_valuation(property_data))

price_comparison_statement(property_data) ==
    LET valuation == get_valuation(property_data)
    IN  IF valuation.t = "None" THEN Raise("AttributeError")
        ELSE generate_price_comparison(
                 IF valuation.has_comparable_sales THEN valuation.comparable_sales ELSE <<>>,
                 get_int(property_data.price),
                 get_int(property_data.sqft))

market_trend_statement(property_data) ==
    LET valuation == get_valuation(property_data)
    IN  IF valuation.t = "None" THEN Raise("AttributeError")
        ELSE generate_market_trend(
                 IF valuation.has_price_trend THEN valuation.price_trend ELSE "Stable")

\* statement 5 with the gauge's default taken as 50 where the radar's is 75
investment_gauge_statement_default_50(property_data) ==
    LET ratings == get_ratings(property_data)
    IN  IF ratings.t = "None" THEN Raise("AttributeError")
        ELSE IF "investment_potential" \notin DOMAIN ratings.items
             THEN generate_investment_gauge(50)
        ELSE IF ratings.items["investment_potential"].t # "dict"
             THEN Raise("AttributeError")
        ELSE generate_investment_gauge(
                 IF ratings.items["investment_potential"].has_score
                 THEN ratings.items["investment_potential"].score ELSE 50)

investment_gauge_statement(property_data) ==
    LET ratings == get_ratings(property_data)
    IN  IF ratings.t = "None" THEN Raise("AttributeError")
        ELSE IF "investment_potential" \notin DOMAIN ratings.items
             THEN generate_investment_gauge(75)
        ELSE IF ratings.items["investment_potential"].t # "dict"
             THEN Raise("AttributeError")
        ELSE generate_investment_gauge(
                 IF ratings.items["investment_potential"].has_score
                 THEN ratings.items["investment_potential"].score ELSE 75)

\* statement i of generate_all_charts
chart_statement(i, property_data) ==
    CASE i = 1 -> ratings_radar_statement(property_data)
      [] i = 2 -> valuation_chart_statement(property_data)
      [] i = 3 -> price_comparison_statement(property_data)
      [] i = 4 -> market_trend_statement(property_data)
      [] i = 5 -> investment_gauge_statement(property_data)

NoCharts == [k \in {} |-> default_radar_chart]

\* charts[key] = document
SetItem(charts, key, document) == (key :> document) @@ charts

Returned(charts) == [status |-> "returned", charts |-> charts, exc |-> "none"]

Raised(exception) == [status |-> "raised", charts |-> NoCharts, exc |-> exception]

RECURSIVE run_statements(_, _, _)
run_statements(property_data, i, charts) ==
    IF i > Len(chart_keys) THEN Returned(charts)
    ELSE LET r == chart_statement(i, property_data)
         IN  IF r.status = "raise" THEN Raised(r.exc)
             ELSE run_statements(property_data, i + 1, SetItem(charts, chart_keys[i], r.doc))

generate_all_charts(property_data) == run_statements(property_data, 1, NoCharts)

(***************************************************************************)
(* Inputs.                                                                 *)
(***************************************************************************)
\* the record main() builds to try the generator
TestRatings ==
    RatingsDict(
        [k \in {"school_quality", "safety", "transportation", "amenities",
                "investment_potential", "environment"} |->
            RatingEntry(CASE k = "school_quality" -> 85
                          [] k = "safety" -> 92
                          [] k = "transportation" -> 78
                          [] k = "amenities" -> 88
                          [] k = "investment_potential" -> 82
                          [] k = "environment" -> 90)])

TestComparables ==
    <<Comp(TRUE, 425000, TRUE, 225), Comp(TRUE, 460000, TRUE, 240),
      Comp(TRUE, 440000, TRUE, 230)>>

TestValuation == ValuationDict(TRUE, 450000, TRUE, TestComparables, TRUE, "Rising")

ScoreInputs == {-5, 59, 82, 105}

EntryInputs == {EntryNoScore, EntryNotMapping} \cup {RatingEntry(s) : s \in ScoreInputs}

RatingKeyInputs ==
    {"school_quality", "safety", "transportation", "amenities", "investment_potential",
     "environment", "overall"}

RatingsInputs ==
    {RatingsMissing, RatingsNone, EmptyDict, TestRatings}
    \cup {RatingsDict([k \in {key} |-> e]) : key \in RatingKeyInputs, e \in EntryInputs}

\* mappings holding all six categories, each with a score
FullScores == {0, 50, 100}

FullRatings ==
    {RatingsDict(f) :
        f \in [{rating_map[i] : i \in 1..Len(rating_map)} ->
                 {RatingEntry(sc) : sc \in FullScores}]}

\* mappings holding some categories, with and without a score
MixedRatings ==
    {RatingsDict(f) :
        f \in UNION {[K -> {EntryNoScore, RatingEntry(59)}] :
                       K \in {{"safety", "environment"}, {"school_quality", "overall"},
                              {"transportation", "amenities", "investment_potential"}}}}

Reverse(seq) == [i \in 1..Len(seq) |-> seq[Len(seq) + 1 - i]]

\* the same mappings built with their keys inserted in the opposite order
ReorderedRatings ==
    {RatingsOrdered(r.items, Reverse(r.order)) : r \in MixedRatings \cup {TestRatings}}

RadarInputs ==
    (RatingsInputs \ {RatingsMissing}) \cup FullRatings \cup MixedRatings
    \cup ReorderedRatings

RatingsFew == {RatingsMissing, RatingsNone, TestRatings}

TrendInputs == {"Rising", "Stable", "Declining", "Volatile", "Skyrocketing"}

\* well-formed comparables of price 0..MaxPrice, one without price, one without price_per_sqft
CompInputs ==
    {Comp(TRUE, p, TRUE, 180 + 20 * p) : p \in 0..MaxPrice}
    \cup {Comp(FALSE, 0, TRUE, 180), Comp(TRUE, 1, FALSE, 0)}

CompLists == UNION {[1..n -> CompInputs] : n \in 0..MaxComps}

ValuationInputs ==
    {ValuationMissing, ValuationNone, TestValuation}
    \cup {ValuationDict(TRUE, l, TRUE, c, has_t, IF has_t THEN "Rising" ELSE "") :
            l \in 0..MaxPrice, c \in CompLists, has_t \in BOOLEAN}
    \cup {ValuationDict(FALSE, 0, TRUE, c, FALSE, "") : c \in CompLists}
    \cup {ValuationDict(TRUE, 1, FALSE, <<>>, FALSE, "")}
    \cup {[TestValuation EXCEPT !.price_trend = tr] : tr \in TrendInputs}

\* a valuation with many comparable sales of one price
CrowdedValuations ==
    {ValuationDict(TRUE, 1, TRUE, [i \in 1..ManyComps |-> Comp(TRUE, 1, TRUE, 180)],
                   FALSE, "")}

ValuationFew == {ValuationMissing, ValuationNone, TestValuation}

PriceFieldInputs == {IntMissing, IntValue(450000)}

SqftFieldInputs == {IntMissing, IntValue(0), IntValue(2000), IntValue(-2000)}

PropertyInputs ==
    {PropertyData(r, v, p, s) :
        r \in RatingsInputs, v \in ValuationFew, p \in PriceFieldInputs, s \in SqftFieldInputs}
    \cup {PropertyData(r, v, p, s) :
        r \in RatingsFew, v \in ValuationInputs,
        p \in {IntValue(450000)}, s \in {IntMissing, IntValue(2000)}}

ScoreRange == (0 - ScoreMargin)..(100 + ScoreMargin)

Callers == 1..NumCallers

NoCall == [called |-> FALSE, since |-> 0,
           args |-> PropertyData(RatingsMissing, ValuationMissing, IntMissing, IntMissing),
           outcome |-> Raised("none")]

NoResult == [status |-> "none", charts |-> NoCharts, exc |-> "none"]

\* the generator as constructed: AnalyticsGenerator defines no __init__ and no attribute
NoAttributes == {}

Init ==
    /\ op = "none"
    /\ args = 0
    /\ outcome = 0
    /\ remembered = NoCall
    /\ clock = 0
    /\ pc = [c \in Callers |-> 0]
    /\ input = [c \in Callers |-> NoCall.args]
    /\ frames = [c \in Callers |-> NoCharts]
    /\ result = [c \in Callers |-> NoResult]
    /\ attributes = NoAttributes

(***************************************************************************)
(* Calls on one generator, one at a time: a call is made when no result is *)
(* pending, and the caller then drops the result.                          *)
(***************************************************************************)
Others == <<remembered, clock, pc, input, frames, result, attributes>>

CallGenerateAllCharts ==
    /\ op = "none"
    /\ \E property_data \in PropertyInputs :
        /\ op' = "generate_all_charts"
        /\ args' = property_data
        /\ outcome' = generate_all_charts(property_data)
    /\ UNCHANGED Others

CallGenerateRadarChart ==
    /\ op = "none"
    /\ \E ratings \in RadarInputs :
        /\ op' = "generate_radar_chart"
        /\ args' = ratings
        /\ outcome' = generate_radar_chart(ratings)
    /\ UNCHANGED Others

CallGenerateValuationChart ==
    /\ op = "none"
    /\ \E valuation_data \in (ValuationInputs \ {ValuationMissing}) \cup CrowdedValuations :
        /\ op' = "generate_valuation_chart"
        /\ args' = valuation_data
        /\ outcome' = generate_valuation_chart(valuation_data)
    /\ UNCHANGED Others

CallGeneratePriceComparison ==
    /\ op = "none"
    /\ \E comparables \in CompLists \cup {TestComparables},
          current_price \in {0, 450000}, current_sqft \in {0, 2000, -2000} :
        /\ op' = "generate_price_comparison"
        /\ args' = [comparables |-> comparables, current_price |-> current_price,
                    current_sqft |-> current_sqft]
        /\ outcome' = generate_price_comparison(comparables, current_price, current_sqft)
    /\ UNCHANGED Others

CallGenerateMarketTrend ==
    /\ op = "none"
    /\ \E trend \in TrendInputs :
        /\ op' = "generate_market_trend"
        /\ args' = trend
        /\ outcome' = generate_market_trend(trend)
    /\ UNCHANGED Others

CallGenerateInvestmentGauge ==
    /\ op = "none"
    /\ \E score \in ScoreRange :
        /\ op' = "generate_investment_gauge"
        /\ args' = score
        /\ outcome' = generate_investment_gauge(score)
    /\ UNCHANGED Others

CallScoreToColor ==
    /\ op = "none"
    /\ \E score \in ScoreRange :
        /\ op' = "score_to_color"
        /\ args' = score
        /\ outcome' = score_to_color(score)
    /\ UNCHANGED Others

CallScoreToLabel ==
    /\ op = "none"
    /\ \E score \in ScoreRange :
        /\ op' = "score_to_label"
        /\ args' = score
        /\ outcome' = score_to_label(score)
    /\ UNCHANGED Others

\* the same two conversions called on the scraper
CallScraperScoreToColor ==
    /\ op = "none"
    /\ \E score \in ScoreRange :
        /\ op' = "scraper_score_to_color"
        /\ args' = score
        /\ outcome' = scraper_score_to_color(score)
    /\ UNCHANGED Others

CallScraperScoreToLabel ==
    /\ op = "none"
    /\ \E score \in ScoreRange :
        /\ op' = "scraper_score_to_label"
        /\ args' = score
        /\ outcome' = scraper_score_to_label(score)
    /\ UNCHANGED Others

\* the caller is done with the result
Discard ==
    /\ op # "none"
    /\ op' = "none"
    /\ args' = 0
    /\ outcome' = 0
    /\ UNCHANGED Others

Next ==
    \/ CallGenerateAllCharts
    \/ CallGenerateRadarChart
    \/ CallGenerateValuationChart
    \/ CallGeneratePriceComparison
    \/ CallGenerateMarketTrend
    \/ CallGenerateInvestmentGauge
    \/ CallScoreToColor
    \/ CallScoreToLabel
    \/ CallScraperScoreToColor
    \/ CallScraperScoreToLabel
    \/ Discard

Spec == Init /\ [][Next]_vars

(***************************************************************************)
(* Repeated calls of generate_all_charts on one generator, while the clock *)
(* advances; one earlier call is remembered.                               *)
(***************************************************************************)
TestRecord == PropertyData(TestRatings, TestValuation, IntValue(450000), IntValue(2000))

RepeatInputs ==
    {TestRecord,
     PropertyData(RatingsMissing, ValuationMissing, IntMissing, IntMissing),
     PropertyData(RatingsNone, TestValuation, IntValue(450000), IntValue(2000)),
     PropertyData(TestRatings, ValuationNone, IntValue(450000), IntValue(2000)),
     PropertyData(EmptyDict, TestValuation, IntValue(450000), IntValue(0)),
     PropertyData(TestRatings, [TestValuation EXCEPT !.price_trend = "Skyrocketing"],
                  IntMissing, IntValue(2000)),
     PropertyData(TestRatings,
                  ValuationDict(TRUE, 0, TRUE, <<Comp(TRUE, 0, TRUE, 180)>>, FALSE, ""),
                  IntValue(450000), IntValue(2000)),
     PropertyData(RatingsDict([k \in {"safety"} |-> RatingEntry(59)]),
                  ValuationDict(TRUE, 1, TRUE, <<Comp(TRUE, 2, TRUE, 240)>>, TRUE, "Stable"),
                  IntValue(450000), IntValue(-2000))}

\* a call; remembered.since counts the calls made after the remembered one
RepeatCall ==
    /\ op = "none"
    /\ \E property_data \in RepeatInputs :
        /\ op' = "generate_all_charts"
        /\ args' = property_data
        /\ outcome' = generate_all_charts(property_data)
    /\ remembered' =
         IF remembered.called /\ remembered.since < MaxSince
         THEN [remembered EXCEPT !.since = remembered.since + 1]
         ELSE remembered
    /\ UNCHANGED <<clock, pc, input, frames, result, attributes>>

\* the caller keeps this call's arguments and result, and is done with the call
Remember ==
    /\ op = "generate_all_charts"
    /\ remembered' = [called |-> TRUE, since |-> 0, args |-> args, outcome |-> outcome]
    /\ op' = "none"
    /\ args' = 0
    /\ outcome' = 0
    /\ UNCHANGED <<clock, pc, input, frames, result, attributes>>

Tick ==
    /\ clock < MaxClock
    /\ clock' = clock + 1
    /\ UNCHANGED <<op, args, outcome, remembered, pc, input, frames, result, attributes>>

NextRepeat ==
    \/ RepeatCall
    \/ Remember
    \/ Discard
    \/ Tick

SpecRepeat == Init /\ [][NextRepeat]_vars

(***************************************************************************)
(* Concurrent callers of generate_all_charts on one generator, interleaved *)
(* statement by statement.  pc[c] = 0: caller c is outside the call;       *)
(* 1..5: about to run that statement; 6: about to return charts.           *)
(***************************************************************************)
\* charts kept in one attribute of the generator (self.charts) shared by all callers
SharedAttribute(c) == 1

\* the frame holding the local variable charts of caller c's call
Local(c) == c

\* statement 1 written with property_data.setdefault('ratings', {}): it stores the
\* default in the caller's record
statement_effects_setdefault(i, property_data, attrs) ==
    [property_data |->
        IF i = 1 /\ property_data.ratings.t = "missing"
        THEN [property_data EXCEPT !.ratings = EmptyDict]
        ELSE property_data,
     attributes |-> attrs]

\* what statement i leaves behind in the caller's record and in the generator's
\* attributes: the statements read property_data with .get and assign only to the
\* local charts, so both are as before
statement_effects(i, property_data, attrs) ==
    [property_data |-> property_data, attributes |-> attrs]

Enter(c) ==
    /\ pc[c] = 0
    /\ \E property_data \in RepeatInputs :
        input' = [input EXCEPT ![c] = property_data]
    /\ frames' = [frames EXCEPT ![Local(c)] = NoCharts]
    /\ result' = [result EXCEPT ![c] = NoResult]
    /\ pc' = [pc EXCEPT ![c] = 1]
    /\ UNCHANGED <<op, args, outcome, remembered, clock, attributes>>

Statement(c) ==
    /\ pc[c] \in 1..Len(chart_keys)
    /\ LET r == chart_statement(pc[c], input[c])
       IN  IF r.status = "raise"
           THEN /\ result' = [result EXCEPT ![c] = Raised(r.exc)]
                /\ pc' = [pc EXCEPT ![c] = 0]
                /\ UNCHANGED frames
           ELSE /\ frames' = [frames EXCEPT ![Local(c)] =
                                 SetItem(frames[Local(c)], chart_keys[pc[c]], r.doc)]
                /\ pc' = [pc EXCEPT ![c] = pc[c] + 1]
                /\ UNCHANGED result
    /\ input' = [input EXCEPT ![c] = statement_effects(pc[c], input[c], attributes).property_data]
    /\ attributes' = statement_effects(pc[c], input[c], attributes).attributes
    /\ UNCHANGED <<op, args, outcome, remembered, clock>>

Return(c) ==
    /\ pc[c] = Len(chart_keys) + 1
    /\ result' = [result EXCEPT ![c] = Returned(frames[Local(c)])]
    /\ pc' = [pc EXCEPT ![c] = 0]
    /\ UNCHANGED <<op, args, outcome, remembered, clock, input, frames, attributes>>

NextConcurrent == \E c \in Callers : Enter(c) \/ Statement(c) \/ Return(c)

SpecConcurrent == Init /\ [][NextConcurrent]_vars

(***************************************************************************)
(* Claims.                                                                 *)
(***************************************************************************)
ChartIdentifiers == {chart_keys[i] : i \in 1..Len(chart_keys)}

\* an input whose fields are absent, empty or present with values of the documented
\* types: nothing is None, every rating entry is a mapping, every comparable sale
\* carries its price and its price_per_sqft
WellTyped(property_data) ==
    /\ property_data.ratings.t # "None"
    /\ \A k \in DOMAIN property_data.ratings.items :
          property_data.ratings.items[k].t = "dict"
    /\ property_data.valuation.t # "None"
    /\ \A i \in 1..Len(property_data.valuation.comparable_sales) :
          /\ property_data.valuation.comparable_sales[i].has_price
          /\ property_data.valuation.comparable_sales[i].has_price_per_sqft

\* C1 (as stated): for every input record whose ratings, valuation, price and sqft
\* fields are present, absent or empty, generate_all_charts returns a mapping whose
\* key set is exactly the five chart identifiers (the code spells them ratings_radar,
\* valuation_chart, price_comparison, market_trend, investment_gauge).
C1_ReturnsFiveKeys ==
    (op = "generate_all_charts" /\ WellTyped(args))
        => (outcome.status = "returned" /\ DOMAIN outcome.charts = ChartIdentifiers)

\* C2 (as stated): generate_all_charts never ends in an error: for every input
\* shape the call returns the chart mapping instead of raising.
C2_NeverRaises ==
    op = "generate_all_charts" => outcome.status = "returned"

\* C3 (as stated): when the ratings field is missing or None, and the other charts'
\* inputs can be rendered, generate_all_charts returns the placeholder radar
\* document together with the other four charts.
C3_AbsentRatingsPlaceholder ==
    (/\ op = "generate_all_charts"
     /\ args.ratings.t \in {"missing", "None"}
     /\ \A i \in 2..4 : chart_statement(i, args).status = "ok")
        => (/\ outcome.status = "returned"
            /\ DOMAIN outcome.charts = ChartIdentifiers
            /\ outcome.charts["ratings_radar"] = default_radar_chart)

\* C4 (as stated): for a ratings object that is present but empty,
\* generate_radar_chart renders the data polygon with all six scores at 75, a
\* document that differs from the placeholder.
C4_EmptyRatingsDefaultPolygon ==
    (op = "generate_radar_chart" /\ args = EmptyDict)
        => (/\ outcome.status = "ok"
            /\ outcome.doc # default_radar_chart
            /\ ~outcome.doc.placeholder
            /\ outcome.doc.scores = [i \in 1..6 |-> 75])

\* the bucket of a score: the number of boundaries 60, 70, 80, 90 it has reached
BucketOf(score) == Cardinality({b \in {60, 70, 80, 90} : b <= score})

BucketLabel(bucket) ==
    CASE bucket = 4 -> "Excellent"
      [] bucket = 3 -> "Very Good"
      [] bucket = 2 -> "Good"
      [] bucket = 1 -> "Fair"
      [] bucket = 0 -> "Needs Attention"

\* C5: for every score in 0..100 score_to_label returns the label of the score's
\* bucket (boundaries 60, 70, 80, 90, a boundary belonging to the higher bucket),
\* and score_to_color returns a color shared by exactly the scores of that bucket.
C5_ScoreBuckets ==
    /\ (op = "score_to_label" /\ args \in 0..100)
          => outcome = BucketLabel(BucketOf(args))
    /\ (op = "score_to_color" /\ args \in 0..100)
          => \A t \in 0..100 :
                (score_to_color(t) = outcome) <=> (BucketOf(t) = BucketOf(args))

\* score_to_label is called with the boundary score 80
C5_Witness ==
    /\ op = "score_to_label"
    /\ args = 80
    /\ outcome = "Very Good"

RECURSIVE ChartsAfter(_, _)
ChartsAfter(property_data, n) ==
    IF n = 0 THEN NoCharts
    ELSE SetItem(ChartsAfter(property_data, n - 1), chart_keys[n],
                 chart_statement(n, property_data).doc)

\* C7: under every interleaving of concurrent callers, the outcome of each caller is
\* the outcome of generate_all_charts run alone on its input, and while a call is in
\* progress its charts mapping holds exactly what its own statements have stored.
C7_ConcurrentCallsIndependent ==
    \A c \in Callers :
        /\ result[c].status # "none" => result[c] = generate_all_charts(input[c])
        /\ pc[c] \in 1..(Len(chart_keys) + 1)
              => frames[c] = ChartsAfter(input[c], pc[c] - 1)

\* two callers with different inputs are inside the call at once, one about to return
C7_Witness ==
    \E c, d \in Callers :
        /\ c # d
        /\ input[c] # input[d]
        /\ pc[c] = Len(chart_keys) + 1
        /\ pc[d] \in 2..Len(chart_keys)
        /\ frames[c] # frames[d]

\* C8: generate_valuation_chart returns the placeholder document whenever the
\* comparable sales list is empty or missing, whatever the listing price, and a
\* rendered document is the placeholder only then; with the valuation section absent
\* generate_all_charts returns the placeholder as its valuation chart.
C8_ValuationPlaceholder ==
    /\ (op = "generate_valuation_chart" /\ args.t = "dict")
          => LET empty == ~args.has_comparable_sales \/ args.comparable_sales = <<>>
             IN  /\ empty => outcome = Ok(default_bar_chart)
                 /\ (outcome.status = "ok" /\ ~empty)
                       => (/\ ~outcome.doc.placeholder
                           /\ Len(outcome.doc.bars) >= 2)
    /\ (op = "generate_all_charts" /\ args.valuation.t = "missing"
            /\ outcome.status = "returned")
          => outcome.charts["valuation_chart"] = default_bar_chart

C8_Witness ==
    /\ op = "generate_valuation_chart"
    /\ args.has_listing_price
    /\ args.listing_price > 0
    /\ args.has_comparable_sales
    /\ args.comparable_sales = <<>>
    /\ outcome = Ok(default_bar_chart)

\* C9: in a rendered valuation chart max_price is the largest of the comparable prices
\* and the listing price, the bar of each value has height value * 150 / max_price,
\* and no bar is taller than 150; for the comparables 425000, 460000, 440000 and the
\* listing price 450000, max_price is 460000 and the listing bar is 450000 * 150 / 460000.
C9_BarHeights ==
    (op = "generate_valuation_chart" /\ outcome.status = "ok" /\ ~outcome.doc.placeholder)
        => LET doc == outcome.doc
               listing == IF args.has_listing_price THEN args.listing_price ELSE 0
               values == <<listing>> \o
                         [i \in 1..Len(args.comparable_sales) |->
                             args.comparable_sales[i].price]
           IN  /\ \A i \in 1..Len(values) : values[i] <= doc.max_price
               /\ \E i \in 1..Len(values) : values[i] = doc.max_price
               /\ Len(doc.bars) = Len(values)
               /\ \A i \in 1..Len(values) :
                     /\ doc.bars[i].height = Frac(values[i] * 150, doc.max_price)
                     /\ FracLeq(doc.bars[i].height, Frac(150, 1))
                     /\ FracLeq(Frac(0, 1), doc.bars[i].height)
               /\ args = TestValuation
                     => (/\ doc.max_price = 460000
                         /\ doc.bars[1].height = Frac(450000 * 150, 460000))

\* the listing price is the largest value: its bar is exactly 150 high
C9_Witness ==
    /\ op = "generate_valuation_chart"
    /\ outcome.status = "ok"
    /\ ~outcome.doc.placeholder
    /\ Len(outcome.doc.bars) = 3
    /\ \A i \in 1..2 : args.comparable_sales[i].price < args.listing_price
    /\ outcome.doc.max_price = args.listing_price
    /\ outcome.doc.bars[1].height = Frac(150 * args.listing_price, args.listing_price)

\* C10 (as stated): no division fails: generate_valuation_chart and
\* generate_price_comparison never raise a division-by-zero error.
C10_NoDivisionFails ==
    op \in {"generate_valuation_chart", "generate_price_comparison"}
        => ~(outcome.status = "raise" /\ outcome.exc = "ZeroDivisionError")

\* C11 (as stated): scores are clamped to 0..100 before scaling: for every integer
\* score every radar data point lies at a radius between 0 and the outer radius, and
\* the gauge's visible dash length lies between 0 and 251.
C11_ScoresClamped ==
    /\ (op = "generate_radar_chart" /\ outcome.status = "ok" /\ ~outcome.doc.placeholder)
          => \A i \in 1..Len(outcome.doc.points) :
                /\ FracLeq(Frac(0, 1), outcome.doc.points[i].score_radius)
                /\ FracLeq(outcome.doc.points[i].score_radius, Frac(outcome.doc.radius, 1))
    /\ (op = "generate_investment_gauge" /\ outcome.status = "ok")
          => /\ FracLeq(Frac(0, 1), outcome.doc.dash)
             /\ FracLeq(outcome.doc.dash, Frac(outcome.doc.dash_total, 1))

\* C12: generate_price_comparison returns the comparison placeholder whenever the
\* size is zero or the comparable list is empty, and no division fails; a rendered
\* chart carries current_pps = current_price / current_sqft (450000 / 2000 = 225).
C12_ComparisonPlaceholder ==
    op = "generate_price_comparison" =>
        /\ (args.current_sqft = 0 \/ Len(args.comparables) = 0)
              => outcome = Ok(default_comparison_chart)
        /\ outcome # Raise("ZeroDivisionError")
        /\ (outcome.status = "ok" /\ ~outcome.doc.placeholder)
              => /\ args.current_sqft # 0 /\ Len(args.comparables) > 0
                 /\ outcome.doc.current_pps.den # 0
                 /\ outcome.doc.current_pps.num * args.current_sqft
                       = args.current_price * outcome.doc.current_pps.den
                 /\ (args.current_price = 450000 /\ args.current_sqft = 2000)
                       => outcome.doc.current_pps.num = 225 * outcome.doc.current_pps.den

C12_Witness ==
    /\ op = "generate_price_comparison"
    /\ args.current_sqft = 0 /\ args.current_price = 450000
    /\ Len(args.comparables) = 2
    /\ outcome = Ok(default_comparison_chart)

\* C13 (as stated): in the price-per-area chart every bar has a height equal to its
\* price-per-area value divided by 2: the current property's bar (current_pps / 2)
\* as well as each comparable's bar (price_per_sqft / 2).
C13_EveryBarHalfValue ==
    (op = "generate_price_comparison" /\ outcome.status = "ok" /\ ~outcome.doc.placeholder)
       => /\ 2 * outcome.doc.current_bar.height * outcome.doc.current_pps.den
                = outcome.doc.current_pps.num
          /\ \A i \in 1..Len(outcome.doc.bars) :
                /\ outcome.doc.bars[i].height.den # 0
                /\ 2 * outcome.doc.bars[i].height.num
                      = args.comparables[i].price_per_sqft * outcome.doc.bars[i].height.den

\* the glyph a path draws, read from its points (y grows downwards)
Glyph(path) ==
    IF Len(path) = 3 /\ path[1][1] < path[2][1] /\ path[2][1] < path[3][1]
    THEN IF path[2][2] < path[1][2] /\ path[2][2] < path[3][2] THEN "upward chevron"
         ELSE IF path[2][2] > path[1][2] /\ path[2][2] > path[3][2] THEN "downward chevron"
         ELSE IF path[1][2] = path[2][2] /\ path[2][2] = path[3][2] THEN "flat line"
         ELSE "other"
    ELSE IF /\ Len(path) = 5
            /\ \A i \in 1..4 : path[i][1] < path[i + 1][1]
            /\ path[1][2] < path[2][2] /\ path[2][2] > path[3][2]
            /\ path[3][2] < path[4][2] /\ path[4][2] > path[5][2]
         THEN "zigzag"
    ELSE "other"

RecognizedTrends == {"Rising", "Stable", "Declining", "Volatile"}

NeutralColor == "#a0aec0"

ExpectedGlyph(trend) ==
    CASE trend = "Rising" -> "upward chevron"
      [] trend = "Declining" -> "downward chevron"
      [] trend = "Stable" -> "flat line"
      [] OTHER -> "zigzag"

\* C14: generate_market_trend never raises; Rising draws the upward chevron,
\* Declining the downward chevron, Stable the flat line, Volatile the zigzag, each
\* in a color no other recognized trend has and that is not the neutral color;
\* every other trend draws the zigzag in the neutral color #a0aec0; and
\* generate_all_charts, given a valuation without price_trend, renders the Stable
\* indicator as its market_trend chart.
C14_TrendGlyphs ==
    /\ op = "generate_market_trend" =>
          /\ outcome.status = "ok"
          /\ outcome.doc.trend = args
          /\ Glyph(outcome.doc.path) = ExpectedGlyph(args)
          /\ args \in RecognizedTrends =>
                /\ outcome.doc.color # NeutralColor
                /\ \A other \in RecognizedTrends \ {args} :
                      generate_market_trend(other).doc.color # outcome.doc.color
          /\ args \notin RecognizedTrends => outcome.doc.color = NeutralColor
    /\ (/\ op = "generate_all_charts"
        /\ args.valuation.t # "None"
        /\ ~args.valuation.has_price_trend) =>
          /\ market_trend_statement(args).status = "ok"
          /\ outcome.status = "returned" =>
                /\ outcome.charts["market_trend"].trend = "Stable"
                /\ Glyph(outcome.charts["market_trend"].path) = "flat line"
                /\ outcome.charts["market_trend"].color
                      = generate_market_trend("Stable").doc.color

C14_Witness ==
    /\ op = "generate_market_trend"
    /\ args = "Skyrocketing"
    /\ outcome.status = "ok"
    /\ Glyph(outcome.doc.path) = "zigzag"
    /\ outcome.doc.color = NeutralColor

\* the ratings carry no investment_potential score: no ratings, no such key, or an
\* entry without score
NoInvestmentScore(property_data) ==
    /\ property_data.ratings.t # "None"
    /\ \/ "investment_potential" \notin DOMAIN property_data.ratings.items
       \/ /\ property_data.ratings.items["investment_potential"].t = "dict"
          /\ ~property_data.ratings.items["investment_potential"].has_score

\* C15: for every score in 0..100 the gauge's visible dash length is score * 2.51
\* out of 251, its color is score_to_color(score) and its label score_to_label(score)
\* (82 gives Very Good, the bucket 80 <= score < 90); generate_all_charts, given
\* ratings without an investment_potential score, renders the gauge of score 75.
C15_GaugeDash ==
    /\ (op = "generate_investment_gauge" /\ args \in 0..100) =>
          /\ outcome.status = "ok"
          /\ outcome.doc.score = args
          /\ outcome.doc.dash_total = 251
          /\ outcome.doc.dash.den # 0
          /\ outcome.doc.dash.num * 100 = args * 251 * outcome.doc.dash.den
          /\ outcome.doc.color = score_to_color(args)
          /\ outcome.doc.label = score_to_label(args)
          /\ (args >= 80 /\ args < 90) =>
                outcome.doc.label = "Very Good" /\ outcome.doc.color = "#34D399"
    /\ (op = "generate_all_charts" /\ NoInvestmentScore(args)) =>
          /\ investment_gauge_statement(args).status = "ok"
          /\ outcome.status = "returned" =>
                /\ outcome.charts["investment_gauge"].score = 75
                /\ outcome.charts["investment_gauge"].dash.num * 100
                      = 75 * 251 * outcome.charts["investment_gauge"].dash.den
                /\ outcome.charts["investment_gauge"].label = score_to_label(75)
                /\ outcome.charts["investment_gauge"].color = score_to_color(75)

C15_Witness ==
    /\ op = "generate_investment_gauge"
    /\ args = 82
    /\ outcome.status = "ok"
    /\ outcome.doc.label = "Very Good"
    /\ outcome.doc.dash = Frac(82 * 251, 100)

\* a non-empty ratings mapping whose entries are mappings
RatingsOfMappings(ratings) ==
    /\ ratings.t = "dict"
    /\ DOMAIN ratings.items # {}
    /\ \A k \in DOMAIN ratings.items : ratings.items[k].t = "dict"

CategoryKeys ==
    <<"school_quality", "safety", "transportation", "amenities",
      "investment_potential", "environment">>

\* C16: in the radar chart the score of each of the six categories is the rating's
\* score when the category key is present with a score, and 75 when the key is
\* missing or its entry has no score; a non-empty ratings mapping yields exactly six
\* scores.
C16_ScoreOrDefault ==
    (op = "generate_radar_chart" /\ RatingsOfMappings(args)) =>
        /\ outcome.status = "ok"
        /\ ~outcome.doc.placeholder
        /\ Len(outcome.doc.scores) = 6
        /\ Len(outcome.doc.points) = 6
        /\ \A i \in 1..6 :
              /\ outcome.doc.points[i].score_label = outcome.doc.scores[i]
              /\ (CategoryKeys[i] \in DOMAIN args.items /\ args.items[CategoryKeys[i]].has_score)
                    => outcome.doc.scores[i] = args.items[CategoryKeys[i]].score
              /\ CategoryKeys[i] \notin DOMAIN args.items => outcome.doc.scores[i] = 75
              /\ (CategoryKeys[i] \in DOMAIN args.items /\ ~args.items[CategoryKeys[i]].has_score)
                    => outcome.doc.scores[i] = 75

\* a call with a key missing, an entry without a score and an entry with score 59
C16_Witness ==
    /\ op = "generate_radar_chart"
    /\ RatingsOfMappings(args)
    /\ DOMAIN args.items = {"safety", "environment"}
    /\ ~args.items["safety"].has_score
    /\ args.items["environment"].has_score
    /\ outcome.status = "ok"
    /\ outcome.doc.scores = <<75, 75, 75, 75, 75, 59>>

CategoryLabels ==
    <<"Schools", "Safety", "Transport", "Amenities", "Investment", "Environment">>

\* C17: the radar chart's category order is fixed (school quality, safety,
\* transportation, amenities, investment potential, environment): the same
\* key-to-score pairs inserted in another key order give the same scores and the
\* same polygon points, and the score at position i is that of the category whose
\* label is drawn on axis i.
C17_FixedCategoryOrder ==
    (op = "generate_radar_chart" /\ RatingsOfMappings(args)) =>
        /\ outcome.status = "ok"
        /\ ~outcome.doc.placeholder
        /\ LET reordered == generate_radar_chart(RatingsOrdered(args.items, Reverse(args.order)))
           IN  /\ reordered.status = "ok"
               /\ reordered.doc.scores = outcome.doc.scores
               /\ reordered.doc.points = outcome.doc.points
        /\ Len(outcome.doc.labels) = 6
        /\ Len(outcome.doc.points) = 6
        /\ \A i \in 1..6 :
              /\ outcome.doc.labels[i].text = CategoryLabels[i]
              /\ outcome.doc.labels[i].axis = i - 1
              /\ outcome.doc.points[i].axis = outcome.doc.labels[i].axis
              /\ outcome.doc.points[i].axes = outcome.doc.labels[i].axes
              /\ (CategoryKeys[i] \in DOMAIN args.items /\ args.items[CategoryKeys[i]].has_score)
                    => outcome.doc.points[i].score_label = args.items[CategoryKeys[i]].score

\* the test ratings inserted in the opposite key order, environment first
C17_Witness ==
    /\ op = "generate_radar_chart"
    /\ args.t = "dict"
    /\ Len(args.order) = 6
    /\ args.order[1] = "environment" /\ args.order[6] = "school_quality"
    /\ outcome.status = "ok"
    /\ outcome.doc.scores = generate_radar_chart(TestRatings).doc.scores
    /\ outcome.doc.scores[1] = 85 /\ outcome.doc.scores[6] # 85

\* all six categories present, each with a score in 0..100
AllSixScored(ratings) ==
    /\ ratings.t = "dict"
    /\ \A i \in 1..6 :
          /\ CategoryKeys[i] \in DOMAIN ratings.items
          /\ ratings.items[CategoryKeys[i]].t = "dict"
          /\ ratings.items[CategoryKeys[i]].has_score
          /\ ratings.items[CategoryKeys[i]].score \in 0..100

\* C18: for a ratings mapping with all six categories scored in 0..100 the data
\* polygon has exactly 6 points in category order (not sorted by value); point i
\* lies on axis i (angle 2 * pi * (i - 1) / 6 - pi / 2) at radius
\* outerRadius * score_i / 100 from the center (200, 150), where
\* outerRadius = min(200, 150) - 40 = 110.
C18_PolygonPoints ==
    (op = "generate_radar_chart" /\ AllSixScored(args)) =>
        /\ outcome.status = "ok"
        /\ ~outcome.doc.placeholder
        /\ outcome.doc.center_x = 200 /\ outcome.doc.center_y = 150
        /\ outcome.doc.radius = 110
        /\ Len(outcome.doc.points) = 6
        /\ \A i \in 1..6 :
              /\ outcome.doc.points[i].axis = i - 1
              /\ outcome.doc.points[i].axes = 6
              /\ outcome.doc.points[i].score_radius.den # 0
              /\ outcome.doc.points[i].score_radius.num * 100
                    = 110 * args.items[CategoryKeys[i]].score
                        * outcome.doc.points[i].score_radius.den
              /\ outcome.doc.points[i].score_label = args.items[CategoryKeys[i]].score

\* six scores that are not in descending order: the first category scored 0, the last 100
C18_Witness ==
    /\ op = "generate_radar_chart"
    /\ AllSixScored(args)
    /\ args.items["school_quality"].score = 0
    /\ args.items["amenities"].score = 50
    /\ args.items["environment"].score = 100
    /\ outcome.status = "ok"
    /\ outcome.doc.points[1].score_radius = Frac(0, 100)
    /\ outcome.doc.points[6].score_radius = Frac(110 * 100, 100)

\* C19: the valuation chart of N >= 1 comparables draws exactly N + 1 bars; the
\* listing bar comes first, has the distinguished fill (class current-bar, the
\* comparables have class bar), is labelled Listing and has the smallest x;
\* comparable i, in input order, is labelled Comp i, and x strictly increases with i.
C19_ListingBarFirst ==
    (op = "generate_valuation_chart" /\ outcome.status = "ok" /\ ~outcome.doc.placeholder) =>
        LET bars == outcome.doc.bars
            N == Len(args.comparable_sales)
        IN  /\ Len(bars) = N + 1
            /\ bars[1].label = [name |-> "Listing", index |-> 0]
            /\ bars[1].class = "current-bar"
            /\ bars[1].value = (IF args.has_listing_price THEN args.listing_price ELSE 0)
            /\ \A i \in 1..N :
                  /\ bars[i + 1].label = [name |-> "Comp", index |-> i]
                  /\ bars[i + 1].class = "bar"
                  /\ bars[i + 1].class # bars[1].class
                  /\ bars[i + 1].value = args.comparable_sales[i].price
                  /\ bars[i].x.den > 0 /\ bars[i + 1].x.den > 0
                  \* bars[i].x < bars[i + 1].x
                  /\ ~FracLeq(bars[i + 1].x, bars[i].x)
                  /\ ~FracLeq(bars[i + 1].x, bars[1].x)

C19_Witness ==
    /\ op = "generate_valuation_chart"
    /\ Len(args.comparable_sales) = 3
    /\ outcome.status = "ok"
    /\ ~outcome.doc.placeholder
    /\ Len(outcome.doc.bars) = 4
    /\ outcome.doc.bars[4].label = [name |-> "Comp", index |-> 3]

\* the pixel dimensions a document declares: <svg width=".." height="..">
Dimensions(doc) == <<doc.width, doc.height>>

\* the renderer behind each key of the chart mapping
RendererOf(key) ==
    CASE key = "ratings_radar" -> "generate_radar_chart"
      [] key = "valuation_chart" -> "generate_valuation_chart"
      [] key = "price_comparison" -> "generate_price_comparison"
      [] key = "market_trend" -> "generate_market_trend"
      [] key = "investment_gauge" -> "generate_investment_gauge"

FixedDimensions(renderer) ==
    CASE renderer = "generate_radar_chart" -> <<400, 300>>
      [] renderer = "generate_valuation_chart" -> <<500, 300>>
      [] renderer = "generate_price_comparison" -> <<400, 200>>
      [] renderer = "generate_market_trend" -> <<150, 80>>
      [] renderer = "generate_investment_gauge" -> <<200, 120>>

Renderers ==
    {"generate_radar_chart", "generate_valuation_chart", "generate_price_comparison",
     "generate_market_trend", "generate_investment_gauge"}

\* C20: every chart document declares the fixed pixel dimensions of its chart
\* type, on the normal path and on the placeholder path alike: radar 400x300,
\* valuation bars 500x300, price comparison 400x200, trend 150x80, gauge 200x120.
C20_FixedDimensions ==
    /\ (op \in Renderers /\ outcome.status = "ok")
          => Dimensions(outcome.doc) = FixedDimensions(op)
    /\ (op = "generate_all_charts" /\ outcome.status = "returned")
          => \A key \in DOMAIN outcome.charts :
                Dimensions(outcome.charts[key]) = FixedDimensions(RendererOf(key))

\* the valuation placeholder returned inside the chart mapping, next to a rendered radar
C20_Witness ==
    /\ op = "generate_all_charts"
    /\ outcome.status = "returned"
    /\ outcome.charts["valuation_chart"].placeholder
    /\ Dimensions(outcome.charts["valuation_chart"]) = <<500, 300>>
    /\ ~outcome.charts["ratings_radar"].placeholder
    /\ Dimensions(outcome.charts["ratings_radar"]) = <<400, 300>>
    /\ Dimensions(outcome.charts["market_trend"]) = <<150, 80>>

C22_GridlinesAtFractions ==
    (op = "generate_valuation_chart" /\ outcome.status = "ok" /\ ~outcome.doc.placeholder) =>
        /\ Len(outcome.doc.gridlines) = 4
        /\ \A i \in 1..4 :
              /\ 4 * outcome.doc.y_labels[i].y.num
                    = (4 * outcome.doc.baseline - 150 * i) * outcome.doc.y_labels[i].y.den
              /\ \E g \in 1..4 :
                    4 * outcome.doc.gridlines[g] = 4 * outcome.doc.baseline - 150 * i
              /\ \A b \in 1..Len(outcome.doc.bars) :
                    4 * outcome.doc.bars[b].value = i * outcome.doc.max_price
                       => \E g \in 1..4 :
                             outcome.doc.gridlines[g] * outcome.doc.bars[b].y.den
                                = outcome.doc.bars[b].y.num

\* C23 (as stated): the radar chart draws exactly one axis line per category, six in
\* total, each from the center to the outer radius along that category's axis angle
\* (2 * pi * i / 6 - pi / 2, i.e. 270, 330, 30, 90, 150, 210 degrees), and no axis
\* line that does not lie on a category axis.
C23_OneAxisLinePerCategory ==
    (op = "generate_radar_chart" /\ outcome.status = "ok" /\ ~outcome.doc.placeholder) =>
        /\ Len(outcome.doc.axis_lines) = 6
        /\ \A i \in 1..6 :
              \E l \in 1..Len(outcome.doc.axis_lines) :
                  /\ outcome.doc.axis_lines[l].from.r = 0
                  /\ outcome.doc.axis_lines[l].to
                        = [r |-> outcome.doc.radius, angle |-> (2 * (i - 1) + 9) % 12]
        /\ \A l \in 1..Len(outcome.doc.axis_lines) :
              /\ outcome.doc.axis_lines[l].to.angle \in {9, 11, 1, 3, 5, 7}
              /\ outcome.doc.axis_lines[l].from.r # 0
                    => outcome.doc.axis_lines[l].from.angle \in {9, 11, 1, 3, 5, 7}

\* the axes leaning right (330, 0, 30 degrees) and left (150, 180, 210 degrees) by
\* more than cos = 0.7, in twelfths of a turn
LeaningRight == {11, 0, 1}

LeaningLeft == {5, 6, 7}

ExpectedAnchors == <<"middle", "start", "start", "middle", "end", "end">>

\* C24: each radar category label's text anchor follows the horizontal lean of its
\* axis: start when the axis leans right with |cos(angle)| > 0.7, end when it leans
\* left with |cos(angle)| > 0.7, middle otherwise; for the six fixed axes this is
\* middle, start, start, middle, end, end for categories 0 to 5.
C24_TextAnchors ==
    (op = "generate_radar_chart" /\ outcome.status = "ok" /\ ~outcome.doc.placeholder) =>
        /\ Len(outcome.doc.labels) = 6
        /\ \A i \in 1..6 :
              LET angle == (12 * outcome.doc.labels[i].axis) \div outcome.doc.labels[i].axes + 9
                  anchor == outcome.doc.labels[i].anchor
              IN  /\ outcome.doc.labels[i].axis = i - 1
                  /\ outcome.doc.labels[i].axes = 6
                  /\ anchor = "start" <=> (angle % 12) \in LeaningRight
                  /\ anchor = "end" <=> (angle % 12) \in LeaningLeft
                  /\ anchor = "middle" <=> (angle % 12) \notin (LeaningRight \cup LeaningLeft)
                  /\ anchor = ExpectedAnchors[i]

C24_Witness ==
    /\ op = "generate_radar_chart"
    /\ args = TestRatings
    /\ outcome.status = "ok"
    /\ outcome.doc.labels[1].text = "Schools" /\ outcome.doc.labels[1].anchor = "middle"
    /\ outcome.doc.labels[2].text = "Safety" /\ outcome.doc.labels[2].anchor = "start"
    /\ outcome.doc.labels[6].text = "Environment" /\ outcome.doc.labels[6].anchor = "end"

\* the sum of the comparables' price_per_sqft values
SumOfPps(comparables) ==
    SeqSum([i \in 1..Len(comparables) |-> comparables[i].price_per_sqft])

\* C25: in the price-per-area chart the dashed reference line is at y = 100 - avg / 2
\* with avg = (sum of the comparables' price-per-area values) / (their count), which
\* is the y of the top of a comparable bar whose value equals avg; the average is
\* computed only for a non-empty comparable list (the division never fails).
C25_AverageLine ==
    op = "generate_price_comparison" =>
        /\ outcome # Raise("ZeroDivisionError")
        /\ (outcome.status = "ok" /\ ~outcome.doc.placeholder) =>
              LET N == Len(args.comparables)
                  avg == outcome.doc.avg_pps
                  line == outcome.doc.avg_line_y
              IN  /\ N > 0
                  /\ avg.den > 0 /\ line.den > 0
                  /\ avg.num * N = SumOfPps(args.comparables) * avg.den
                  /\ 2 * N * line.num = (200 * N - SumOfPps(args.comparables)) * line.den
                  /\ \A i \in 1..N :
                        args.comparables[i].price_per_sqft * N = SumOfPps(args.comparables)
                           => outcome.doc.bars[i].y.num * line.den
                                 = line.num * outcome.doc.bars[i].y.den

\* the three test comparables (225, 240, 230): the average is 695 / 3
C25_Witness ==
    /\ op = "generate_price_comparison"
    /\ args.comparables = TestComparables
    /\ outcome.status = "ok"
    /\ ~outcome.doc.placeholder
    /\ 3 * outcome.doc.avg_pps.num = 695 * outcome.doc.avg_pps.den
    /\ 6 * outcome.doc.avg_line_y.num = (600 - 695) * outcome.doc.avg_line_y.den

\* C26: in the price-per-area chart every comparable bar ends at y = 100; a bar of
\* value 0..200 has its top y = 100 - value / 2 at or below the canvas top (y >= 0),
\* so it lies inside the 200-pixel-high canvas, and a bar of value above 200 has
\* its top above the canvas (y < 0).
C26_ClippedAboveCeiling ==
    (op = "generate_price_comparison" /\ outcome.status = "ok" /\ ~outcome.doc.placeholder) =>
        \A i \in 1..Len(outcome.doc.bars) :
            LET value == args.comparables[i].price_per_sqft
                top == outcome.doc.bars[i].y
                height == outcome.doc.bars[i].height
            IN  /\ top.den > 0 /\ height.den > 0
                /\ 2 * top.num = (200 - value) * top.den
                \* bottom = top + height = 100
                /\ top.num * height.den + height.num * top.den = 100 * top.den * height.den
                /\ (value >= 0 /\ value <= 200) =>
                      /\ FracLeq(Frac(0, 1), top)
                      /\ 100 <= outcome.doc.height
                /\ value > 200 => ~FracLeq(Frac(0, 1), top)

\* a bar at the ceiling (200, top at y = 0) next to a bar above it (220)
C26_Witness ==
    /\ op = "generate_price_comparison"
    /\ outcome.status = "ok"
    /\ ~outcome.doc.placeholder
    /\ Len(args.comparables) = 2
    /\ args.comparables[1].price_per_sqft = 200
    /\ outcome.doc.bars[1].y = Frac(0, 2)
    /\ args.comparables[2].price_per_sqft = 220
    /\ outcome.doc.bars[2].y = Frac(-20, 2)

\* C27: for every integer score the analytics generator's score_to_color returns
\* the color the scraper's score_to_color returns, and the two score_to_label
\* functions return the same label.
C27_SameAsScraper ==
    /\ op = "score_to_color" => outcome = scraper_score_to_color(args)
    /\ op = "scraper_score_to_color" => outcome = score_to_color(args)
    /\ op = "score_to_label" => outcome = scraper_score_to_label(args)
    /\ op = "scraper_score_to_label" => outcome = score_to_label(args)

\* the scraper asked for the color of 80, the lowest score of the second bucket
C27_Witness ==
    /\ op = "scraper_score_to_color"
    /\ args = 80
    /\ outcome = "#34D399"
    /\ outcome = score_to_color(80)
    /\ outcome # score_to_color(79)

\* the right edge x + width of a bar
RightEdge(bar) == Frac(bar.x.num + bar.width * bar.x.den, bar.x.den)

\* C28 (as stated): for every number N >= 1 of comparables the valuation chart's
\* spacing is availableWidth / (N + 2) with availableWidth = 380 - (N + 1) * 40 (the
\* listing bar starts at x = 60 + spacing), and all N + 1 bars lie inside the
\* plotting range x = 60..440 without overlapping: each bar's left edge is at or
\* after the previous bar's right edge.
C28_BarsInsidePlot ==
    (op = "generate_valuation_chart" /\ outcome.status = "ok" /\ ~outcome.doc.placeholder) =>
        LET bars == outcome.doc.bars
            N == Len(args.comparable_sales)
        IN  /\ Len(bars) = N + 1
            /\ bars[1].x.den > 0
            /\ (bars[1].x.num - 60 * bars[1].x.den) * (N + 2)
                  = (380 - (N + 1) * 40) * bars[1].x.den
            /\ \A i \in 1..(N + 1) :
                  /\ bars[i].x.den > 0
                  /\ FracLeq(Frac(60, 1), bars[i].x)
                  /\ FracLeq(RightEdge(bars[i]), Frac(440, 1))
            /\ \A i \in 1..N : FracLeq(RightEdge(bars[i]), bars[i + 1].x)

\* the chart a call put under a key of the mapping it returned: a one-element
\* sequence, or the empty sequence when the call raised and returned no mapping
ChartAt(call_outcome, key) ==
    IF call_outcome.status = "returned" THEN <<call_outcome.charts[key]>> ELSE <<>>

\* C29 (as stated): each chart in the output map depends only on its own input
\* slice: two calls with the same ratings give the same radar and gauge documents
\* whatever their valuation, price and sqft are, and two calls with the same
\* valuation, price and sqft give the same valuation, price-comparison and trend
\* documents whatever their ratings are, an empty or absent slice included.
C29_SliceIndependence ==
    (op = "generate_all_charts" /\ remembered.called) =>
        /\ args.ratings = remembered.args.ratings =>
              \A key \in {"ratings_radar", "investment_gauge"} :
                  ChartAt(outcome, key) = ChartAt(remembered.outcome, key)
        /\ (/\ args.valuation = remembered.args.valuation
            /\ args.price = remembered.args.price
            /\ args.sqft = remembered.args.sqft) =>
              \A key \in {"valuation_chart", "price_comparison", "market_trend"} :
                  ChartAt(outcome, key) = ChartAt(remembered.outcome, key)

\* the position of the Investment category among the radar's labels
InvestmentAxis(doc) == CHOOSE i \in 1..Len(doc.labels) : doc.labels[i].text = "Investment"

\* C30: whenever generate_all_charts returns a radar chart that is not the
\* placeholder, the score of the investment gauge is the score plotted on the
\* radar's Investment axis: ratings.investment_potential.score, or 75 when that key
\* or its score is missing.
C30_GaugeMatchesRadar ==
    (/\ op = "generate_all_charts"
     /\ outcome.status = "returned"
     /\ ~outcome.charts["ratings_radar"].placeholder) =>
        LET radar == outcome.charts["ratings_radar"]
            gauge == outcome.charts["investment_gauge"]
            i == InvestmentAxis(radar)
            HasScore == /\ "investment_potential" \in DOMAIN args.ratings.items
                        /\ args.ratings.items["investment_potential"].has_score
        IN  /\ \E j \in 1..Len(radar.labels) : radar.labels[j].text = "Investment"
            /\ gauge.score = radar.scores[i]
            /\ gauge.score = radar.points[i].score_label
            /\ HasScore => gauge.score = args.ratings.items["investment_potential"].score
            /\ ~HasScore => gauge.score = 75

\* a returned call whose ratings hold investment_potential alone, with score 59
C30_Witness ==
    /\ op = "generate_all_charts"
    /\ outcome.status = "returned"
    /\ ~outcome.charts["ratings_radar"].placeholder
    /\ DOMAIN args.ratings.items = {"investment_potential"}
    /\ outcome.charts["investment_gauge"].score = 59
    /\ outcome.charts["ratings_radar"].scores = <<75, 75, 75, 75, 59, 75>>

====
